---- MODULE Spec2Model ----
(***************************************************************************)
(* Parser.parse of parsing-esgcrawling, in its two variants:               *)
(*   "seq"  src/parsing.py           one page at a time                    *)
(*   "par"  src/parsing_parallel.py  split every page, then convert_all    *)
(* One behaviour is one call of parse(source, doc_id, testing).  The       *)
(* collaborators the code calls (requests, pypdf, docling, GCS) are        *)
(* nondeterministic: each call either returns or raises.                    *)
(***************************************************************************)
EXTENDS Integers, Sequences, FiniteSets, TLC

\* ---- bounds of the model ----
\* Largest page count of a PDF parsed with testing=True.
MaxPages == 6
\* Largest page count of a PDF parsed with testing=False.
MaxPagesFull == 3

\* Largest number of rows of documents.xlsx.
MaxDocs == 2
\* Largest page count of a PDF named by a row of documents.xlsx.
MaxBatchPages == 1

\* ---- program constants ----
\* min(num_pages, 5): the page cap of testing mode.
TestCap == 5
\* The value dict.get(key, None) gives for a missing key; page numbers are >= 1.
None == 0

DocIds == {"d1", "d2"}

VARIABLES
  variant,       \* "seq" | "par": which file's parse runs
  source,        \* [url |-> BOOLEAN]: whether source starts with http:// or https://
  doc_id,        \* the doc_id argument
  testing,       \* the testing argument
  total,         \* the page count of the PDF the source names
  pc,            \* position in parse
  disk,          \* the file system: path -> content of every existing file
  local_pdf,     \* local_pdf / pdf_path
  limit,         \* limit
  page_number,   \* seq: page_number of the loop; par: i of the split loop
  page_path,     \* seq: page_path of the current iteration
  page_paths,    \* par: page_paths
  metadata_map,  \* par: metadata_map
  pending,       \* par: indices of page_paths convert_all has not yielded yet
  parsed,        \* parsed
  failures,      \* page numbers printed as "Failed parsing page ..."
  storage,       \* the bucket: key -> uploaded payload
  result,        \* what parse gave its caller: the error raised, or the list returned
  created,       \* history: page numbers extracted to a page file, in order
  tempFiles,     \* history: every per-page temporary file this run created
  dispatched,    \* history: page numbers handed to the conversion engine
  uploads,       \* history: number of completed writes to storage
  removed,       \* history: page numbers whose page file was removed, in order
  docs,          \* driver: the (source, doc_id) rows read from documents.xlsx
  idx,           \* driver: number of rows the loop has finished
  log            \* driver: the lines the loop has printed

vars == <<variant, source, doc_id, testing, total, pc, disk, local_pdf, limit,
          page_number, page_path, page_paths, metadata_map, pending, parsed,
          failures, storage, result, created, tempFiles, dispatched, uploads,
          removed, docs, idx, log>>

\* The variables of the batch driver, which a call of parse leaves alone.
driverVars == <<docs, idx, log>>

\* ---- paths and files ----

\* tempfile.gettempdir(): os.path.abspath of the directory, so no "" or "." part.
TmpDir == <<"tmp">>

\* The local path a non-URL source names.
SourcePath == [dir |-> <<"data">>, base |-> 0]

NoPath == [dir |-> <<>>, base |-> 0]

\* pathlib.Path(s): empty and "." components are dropped.
PathOf(s) == [dir |-> SelectSeq(s.dir, LAMBDA c : c # "" /\ c # "."), base |-> s.base]

\* str(p) of a Path.
StrOf(p) == p

Min(a, b) == IF a <= b THEN a ELSE b

\* tempfile.NamedTemporaryFile(delete=False, suffix=".pdf"): a name in the temp
\* directory that no existing file has.  Names are opaque tokens; the first free
\* one stands for whichever one mkstemp draws.
FreshName(existing) ==
  LET used == {f.base : f \in {g \in existing : g.dir = TmpDir}}
      n == CHOOSE k \in 1..(Cardinality(used) + 1) :
             k \notin used /\ \A j \in 1..(k - 1) : j \in used
  IN [dir |-> TmpDir, base |-> n]

DocFile == [kind |-> "doc", n |-> 0]
EmptyFile == [kind |-> "empty", n |-> 0]
PageFile(n) == [kind |-> "page", n |-> n]

Exists(p) == p \in DOMAIN disk

WriteFile(d, p, c) == [x \in DOMAIN d \cup {p} |-> IF x = p THEN c ELSE d[x]]

RemoveFiles(d, ps) == [x \in DOMAIN d \ ps |-> d[x]]

\* export_to_markdown() of the conversion of a one-page file: the text of that page.
Markdown(content) == [md |-> content.n]

\* ---- pure parts of parse ----

\* Limit as a faulty build would compute it: the testing cap is forgotten.
LimitNoCap(n, t) == n

\* limit = min(num_pages, 5) if testing else num_pages
Limit(n, t) == IF t THEN Min(n, TestCap) ELSE n

\* f"parsed/{doc_id}.json"
GcsPath(d) == <<"parsed", d, "json">>

\* _upload_to_gcs as a faulty build would do it: the list is merged into the
\* object already stored under the key.
UploadToGcsMerging(st, data, d, ind) ==
  LET k == GcsPath(d)
      old == IF k \in DOMAIN st THEN st[k].data ELSE <<>>
  IN [x \in DOMAIN st \cup {k} |->
        IF x = k THEN [indent |-> ind, data |-> old \o data] ELSE st[x]]

\* _upload_to_gcs: blob.upload_from_string(json.dumps(data[, indent=4])) on the
\* blob parsed/{doc_id}.json; the object under that key becomes the new payload.
UploadToGcs(st, data, d, ind) ==
  [x \in DOMAIN st \cup {GcsPath(d)} |->
     IF x = GcsPath(d) THEN [indent |-> ind, data |-> data] ELSE st[x]]

\* {"id": str(uuid4()), "page_content": text, "metadata": {...}}
PageRecord(text, num, d, uid) ==
  [id |-> uid, page_content |-> text, metadata |-> [page_number |-> num, doc_id |-> d]]

\* str(uuid4()): a value no earlier record of the run carries.
Uuid4(recs) == Len(recs) + 1

\* PageNumberAt as a faulty build would compute it: the 0-based index is stored.
PageNumberAtZeroBased(i) == i

\* metadata_map[str(tmp.name)] = i + 1, for the 0-based index i of reader.pages.
PageNumberAt(i) == i + 1

\* metadata_map.get(page_file, None)
MapGet(m, k) == IF k \in DOMAIN m THEN m[k] ELSE None

\* How parse ends for its caller: an exception (no value), or a returned list.
Raise(kind) == [error |-> kind, returned |-> FALSE, value |-> <<>>]
Return(v) == [error |-> "", returned |-> TRUE, value |-> v]

\* ---- initial state ----
Init ==
  /\ variant \in {"seq", "par"}
  /\ source \in [url : BOOLEAN]
  /\ doc_id \in DocIds
  /\ testing \in BOOLEAN
  /\ total \in 0..MaxPages
  /\ (testing \/ total <= MaxPagesFull)
  /\ pc = "resolve"
  /\ disk \in IF source.url THEN {<<>>}
              ELSE {<<>>, [x \in {SourcePath} |-> DocFile]}
  /\ local_pdf = NoPath
  /\ limit = 0
  /\ page_number = 0
  /\ page_path = NoPath
  /\ page_paths = <<>>
  /\ metadata_map = <<>>
  /\ pending = {}
  /\ parsed = <<>>
  /\ failures = <<>>
  /\ storage = <<>>
  /\ result = [error |-> "", returned |-> FALSE, value |-> <<>>]
  /\ created = <<>>
  /\ tempFiles = {}
  /\ dispatched = {}
  /\ uploads = 0
  /\ removed = <<>>
  /\ docs = <<>>
  /\ idx = 0
  /\ log = <<>>

\* ---- resolving the source (both variants) ----

\* _download_pdf returns: the body is written to a new temporary file.
DownloadOk ==
  /\ pc = "resolve" /\ source.url
  /\ LET tmp == FreshName(DOMAIN disk)
     IN /\ disk' = WriteFile(disk, tmp, DocFile)
        /\ local_pdf' = IF variant = "par" THEN PathOf(tmp) ELSE tmp
  /\ pc' = "count"
  /\ UNCHANGED <<variant, source, doc_id, testing, total, limit, page_number,
                 page_path, page_paths, metadata_map, pending, parsed, failures,
                 storage, result, created, tempFiles, dispatched, uploads,
                 removed, driverVars>>

\* requests.get or raise_for_status raises: no file has been created yet.
DownloadFail ==
  /\ pc = "resolve" /\ source.url
  /\ pc' = "raised"
  /\ result' = Raise("fetch")
  /\ UNCHANGED <<variant, source, doc_id, testing, total, disk, local_pdf, limit,
                 page_number, page_path, page_paths, metadata_map, pending, parsed,
                 failures, storage, created, tempFiles, dispatched, uploads,
                 removed, driverVars>>

\* A local source is used as it is.
UseLocal ==
  /\ pc = "resolve" /\ ~source.url
  /\ local_pdf' = IF variant = "par" THEN PathOf(SourcePath) ELSE SourcePath
  /\ pc' = "count"
  /\ UNCHANGED <<variant, source, doc_id, testing, total, disk, limit, page_number,
                 page_path, page_paths, metadata_map, pending, parsed, failures,
                 storage, result, created, tempFiles, dispatched, uploads,
                 removed, driverVars>>

\* ---- src/parsing.py: the sequential variant ----

\* get_pdf_page_count returns len(reader.pages); limit is computed.
SeqCountOk ==
  /\ variant = "seq" /\ pc = "count"
  /\ Exists(local_pdf)
  /\ limit' = Limit(total, testing)
  /\ page_number' = 1
  /\ pc' = "loop"
  /\ UNCHANGED <<variant, source, doc_id, testing, total, disk, local_pdf,
                 page_path, page_paths, metadata_map, pending, parsed, failures,
                 storage, result, created, tempFiles, dispatched, uploads,
                 removed, driverVars>>

\* get_pdf_page_count returns None (missing file, or PdfReader raised): ValueError.
SeqCountFail ==
  /\ variant = "seq" /\ pc = "count"
  /\ \E readError \in BOOLEAN : ~Exists(local_pdf) \/ readError
  /\ pc' = "raised"
  /\ result' = Raise("read")
  /\ UNCHANGED <<variant, source, doc_id, testing, total, disk, local_pdf, limit,
                 page_number, page_path, page_paths, metadata_map, pending, parsed,
                 failures, storage, created, tempFiles, dispatched, uploads,
                 removed, driverVars>>

\* for page_number in range(1, limit + 1): the with-block creates the page file.
SeqCreateTemp ==
  /\ variant = "seq" /\ pc = "loop"
  /\ page_number <= limit
  /\ LET tmp == FreshName(DOMAIN disk)
     IN /\ disk' = WriteFile(disk, tmp, EmptyFile)
        /\ page_path' = tmp
        /\ tempFiles' = tempFiles \cup {tmp}
  /\ pc' = "extract"
  /\ UNCHANGED <<variant, source, doc_id, testing, total, local_pdf, limit,
                 page_number, page_paths, metadata_map, pending, parsed, failures,
                 storage, result, created, dispatched, uploads,
                 removed, driverVars>>

\* The range is exhausted: on to the upload.
SeqLoopExit ==
  /\ variant = "seq" /\ pc = "loop"
  /\ page_number > limit
  /\ pc' = "upload"
  /\ UNCHANGED <<variant, source, doc_id, testing, total, disk, local_pdf, limit,
                 page_number, page_path, page_paths, metadata_map, pending, parsed,
                 failures, storage, result, created, tempFiles, dispatched, uploads,
                 removed, driverVars>>

\* What makes extract_single_page raise besides an I/O error.
ExtractRejects(input, n) == ~Exists(input) \/ ~(1 <= n /\ n <= total)

\* extract_single_page writes page page_number into page_path.
SeqExtractOk ==
  /\ variant = "seq" /\ pc = "extract"
  /\ ~ExtractRejects(local_pdf, page_number)
  /\ disk' = WriteFile(disk, page_path, PageFile(page_number))
  /\ created' = Append(created, page_number)
  /\ pc' = "convert"
  /\ UNCHANGED <<variant, source, doc_id, testing, total, local_pdf, limit,
                 page_number, page_path, page_paths, metadata_map, pending, parsed,
                 failures, storage, result, tempFiles, dispatched, uploads,
                 removed, driverVars>>

\* extract_single_page raises; the call is outside the try, page_path stays.
SeqExtractFail ==
  /\ variant = "seq" /\ pc = "extract"
  /\ \E ioError \in BOOLEAN : ExtractRejects(local_pdf, page_number) \/ ioError
  /\ pc' = "raised"
  /\ result' = Raise("extract")
  /\ UNCHANGED <<variant, source, doc_id, testing, total, disk, local_pdf, limit,
                 page_number, page_path, page_paths, metadata_map, pending, parsed,
                 failures, storage, created, tempFiles, dispatched, uploads,
                 removed, driverVars>>

\* parse_single_page(page_path) is called: the conversion of the page is running.
SeqConvertStart ==
  /\ variant = "seq" /\ pc = "convert"
  /\ dispatched' = dispatched \cup {page_number}
  /\ pc' = "converting"
  /\ UNCHANGED <<variant, source, doc_id, testing, total, disk, local_pdf, limit,
                 page_number, page_path, page_paths, metadata_map, pending, parsed,
                 failures, storage, result, created, tempFiles, uploads,
                 removed, driverVars>>

\* os.remove(page_path) of the finally clause, on the history of removals.
RemovePage(p) == IF Exists(p) THEN Append(removed, disk[p].n) ELSE removed

\* SeqConvertOk as a faulty build would do it: no finally clause, the page file
\* is left behind.
SeqConvertOkKeepingFile ==
  /\ variant = "seq" /\ pc = "converting"
  /\ LET text == Markdown(disk[page_path])
     IN parsed' = Append(parsed, PageRecord(text, page_number, doc_id, Uuid4(parsed)))
  /\ page_number' = page_number + 1
  /\ pc' = "loop"
  /\ UNCHANGED <<variant, source, doc_id, testing, total, disk, local_pdf, limit,
                 page_path, page_paths, metadata_map, pending, failures, storage,
                 result, created, tempFiles, dispatched, uploads,
                 removed, driverVars>>

\* parse_single_page returns; finally removes page_path; the record is appended.
SeqConvertOk ==
  /\ variant = "seq" /\ pc = "converting"
  /\ LET text == Markdown(disk[page_path])
     IN parsed' = Append(parsed, PageRecord(text, page_number, doc_id, Uuid4(parsed)))
  /\ disk' = RemoveFiles(disk, {page_path})
  /\ removed' = RemovePage(page_path)
  /\ page_number' = page_number + 1
  /\ pc' = "loop"
  /\ UNCHANGED <<variant, source, doc_id, testing, total, local_pdf, limit,
                 page_path, page_paths, metadata_map, pending, failures, storage,
                 result, created, tempFiles, dispatched, uploads, driverVars>>

\* SeqConvertFail as a faulty build would do it: the pages parsed so far are uploaded before the
\* exception leaves parse.
SeqConvertFailSavingPartial ==
  /\ variant = "seq" /\ pc = "converting"
  /\ disk' = RemoveFiles(disk, {page_path})
  /\ removed' = RemovePage(page_path)
  /\ storage' = UploadToGcs(storage, parsed, doc_id, 0)
  /\ uploads' = uploads + 1
  /\ pc' = "raised"
  /\ result' = Raise("convert")
  /\ UNCHANGED <<variant, source, doc_id, testing, total, local_pdf, limit,
                 page_number, page_path, page_paths, metadata_map, pending, parsed,
                 failures, created, tempFiles, dispatched, driverVars>>

\* parse_single_page raises; finally removes page_path; the exception leaves parse.
SeqConvertFail ==
  /\ variant = "seq" /\ pc = "converting"
  /\ disk' = RemoveFiles(disk, {page_path})
  /\ removed' = RemovePage(page_path)
  /\ pc' = "raised"
  /\ result' = Raise("convert")
  /\ UNCHANGED <<variant, source, doc_id, testing, total, local_pdf, limit,
                 page_number, page_path, page_paths, metadata_map, pending, parsed,
                 failures, storage, created, tempFiles, dispatched, uploads,
                 driverVars>>

\* _upload_to_gcs(parsed, bucket_name, gcs_path) with json.dumps(data).
SeqUploadOk ==
  /\ variant = "seq" /\ pc = "upload"
  /\ storage' = UploadToGcs(storage, parsed, doc_id, 0)
  /\ uploads' = uploads + 1
  /\ pc' = "cleanup"
  /\ UNCHANGED <<variant, source, doc_id, testing, total, disk, local_pdf, limit,
                 page_number, page_path, page_paths, metadata_map, pending, parsed,
                 failures, result, created, tempFiles, dispatched,
                 removed, driverVars>>

\* The upload raises: nothing is written and the exception leaves parse.
SeqUploadFail ==
  /\ variant = "seq" /\ pc = "upload"
  /\ pc' = "raised"
  /\ result' = Raise("upload")
  /\ UNCHANGED <<variant, source, doc_id, testing, total, disk, local_pdf, limit,
                 page_number, page_path, page_paths, metadata_map, pending, parsed,
                 failures, storage, created, tempFiles, dispatched, uploads,
                 removed, driverVars>>

\* SeqCleanup as a faulty build would do it: local_pdf is removed whether or not
\* it was downloaded.
SeqCleanupAnySource ==
  /\ variant = "seq" /\ pc = "cleanup"
  /\ disk' = IF Exists(local_pdf) THEN RemoveFiles(disk, {local_pdf}) ELSE disk
  /\ result' = Return(parsed)
  /\ pc' = "returned"
  /\ UNCHANGED <<variant, source, doc_id, testing, total, local_pdf, limit,
                 page_number, page_path, page_paths, metadata_map, pending, parsed,
                 failures, storage, created, tempFiles, dispatched, uploads,
                 removed, driverVars>>

\* The downloaded copy is removed if the source was a URL; parsed is returned.
SeqCleanup ==
  /\ variant = "seq" /\ pc = "cleanup"
  /\ disk' = IF source.url /\ Exists(local_pdf)
             THEN RemoveFiles(disk, {local_pdf}) ELSE disk
  /\ result' = Return(parsed)
  /\ pc' = "returned"
  /\ UNCHANGED <<variant, source, doc_id, testing, total, local_pdf, limit,
                 page_number, page_path, page_paths, metadata_map, pending, parsed,
                 failures, storage, created, tempFiles, dispatched, uploads,
                 removed, driverVars>>

\* ---- src/parsing_parallel.py: the batch variant ----

\* PdfReader(str(pdf_path)) returns; total_pages and limit are computed.
ParReadOk ==
  /\ variant = "par" /\ pc = "count"
  /\ Exists(local_pdf)
  /\ limit' = Limit(total, testing)
  /\ page_number' = 0
  /\ page_paths' = <<>>
  /\ metadata_map' = <<>>
  /\ pc' = "split"
  /\ UNCHANGED <<variant, source, doc_id, testing, total, disk, local_pdf,
                 page_path, pending, parsed, failures, storage, result, created,
                 tempFiles, dispatched, uploads,
                 removed, driverVars>>

\* PdfReader raises (missing or unreadable file); nothing catches it.
ParReadFail ==
  /\ variant = "par" /\ pc = "count"
  /\ \E readError \in BOOLEAN : ~Exists(local_pdf) \/ readError
  /\ pc' = "raised"
  /\ result' = Raise("read")
  /\ UNCHANGED <<variant, source, doc_id, testing, total, disk, local_pdf, limit,
                 page_number, page_path, page_paths, metadata_map, pending, parsed,
                 failures, storage, created, tempFiles, dispatched, uploads,
                 removed, driverVars>>

\* One iteration of "for i in range(limit)": reader.pages[i] is written to a new
\* temporary file, which is appended to page_paths and mapped to i + 1.
ParExtractOk ==
  /\ variant = "par" /\ pc = "split"
  /\ page_number < limit
  /\ LET tmp == FreshName(DOMAIN disk)
     IN /\ disk' = WriteFile(disk, tmp, PageFile(page_number + 1))
        /\ tempFiles' = tempFiles \cup {tmp}
        /\ page_paths' = Append(page_paths, PathOf(tmp))
        /\ metadata_map' = WriteFile(metadata_map, StrOf(tmp), PageNumberAt(page_number))
  /\ created' = Append(created, page_number + 1)
  /\ page_number' = page_number + 1
  /\ UNCHANGED <<variant, source, doc_id, testing, total, pc, local_pdf, limit,
                 page_path, pending, parsed, failures, storage, result, dispatched,
                 uploads,
                 removed, driverVars>>

\* The temporary file is created and writer.write raises: the exception leaves
\* parse with that file and the earlier page files on disk.
ParExtractFail ==
  /\ variant = "par" /\ pc = "split"
  /\ page_number < limit
  /\ LET tmp == FreshName(DOMAIN disk)
     IN /\ disk' = WriteFile(disk, tmp, EmptyFile)
        /\ tempFiles' = tempFiles \cup {tmp}
  /\ pc' = "raised"
  /\ result' = Raise("extract")
  /\ UNCHANGED <<variant, source, doc_id, testing, total, local_pdf, limit,
                 page_number, page_path, page_paths, metadata_map, pending, parsed,
                 failures, storage, created, dispatched, uploads,
                 removed, driverVars>>

\* ParConvertAll as a faulty build would do it: convert_all is called as soon as
\* one page has been written, and the rest of the split is skipped.
ParConvertAllEarly ==
  /\ variant = "par" /\ pc = "split"
  /\ page_number >= Min(limit, 1)
  /\ pending' = 1..Len(page_paths)
  /\ dispatched' = {disk[page_paths[k]].n : k \in 1..Len(page_paths)}
  /\ parsed' = <<>>
  /\ pc' = "convert"
  /\ UNCHANGED <<variant, source, doc_id, testing, total, disk, local_pdf, limit,
                 page_number, page_path, page_paths, metadata_map, failures,
                 storage, result, created, tempFiles, uploads,
                 removed, driverVars>>

\* ParConvertAll as a faulty build would do it: the page files are unlinked right
\* after the call of convert_all, whose results are only produced when iterated.
ParConvertAllThenUnlink ==
  /\ variant = "par" /\ pc = "split"
  /\ page_number >= limit
  /\ pending' = 1..Len(page_paths)
  /\ dispatched' = {disk[page_paths[k]].n : k \in 1..Len(page_paths)}
  /\ parsed' = <<>>
  /\ disk' = RemoveFiles(disk, {page_paths[k] : k \in 1..Len(page_paths)})
  /\ removed' = removed \o [k \in 1..Len(page_paths) |-> disk[page_paths[k]].n]
  /\ pc' = "convert"
  /\ UNCHANGED <<variant, source, doc_id, testing, total, local_pdf, limit,
                 page_number, page_path, page_paths, metadata_map, failures,
                 storage, result, created, tempFiles, uploads, driverVars>>

\* converter.convert_all(page_paths, raises_on_error=True): every path is handed
\* to the engine, which yields one result per path, in an order of its own.
ParConvertAll ==
  /\ variant = "par" /\ pc = "split"
  /\ page_number >= limit
  /\ pending' = 1..Len(page_paths)
  /\ dispatched' = {disk[page_paths[k]].n : k \in 1..Len(page_paths)}
  /\ parsed' = <<>>
  /\ pc' = "convert"
  /\ UNCHANGED <<variant, source, doc_id, testing, total, disk, local_pdf, limit,
                 page_number, page_path, page_paths, metadata_map, failures,
                 storage, result, created, tempFiles, uploads,
                 removed, driverVars>>

\* page_num = metadata_map.get(str(res.input.file), None)
PageNumOf(k) == MapGet(metadata_map, StrOf(page_paths[k]))

\* The engine yields a converted result: a record is appended.
ParResultOk ==
  /\ variant = "par" /\ pc = "convert"
  /\ \E k \in pending :
       /\ Exists(page_paths[k])
       /\ LET md == Markdown(disk[page_paths[k]])
          IN parsed' = Append(parsed, PageRecord(md, PageNumOf(k), doc_id, Uuid4(parsed)))
       /\ pending' = pending \ {k}
  /\ UNCHANGED <<variant, source, doc_id, testing, total, pc, disk, local_pdf, limit,
                 page_number, page_path, page_paths, metadata_map, failures,
                 storage, result, created, tempFiles, dispatched, uploads,
                 removed, driverVars>>

\* The engine yields a result whose status is FAILURE: printed and skipped.
ParResultFailure ==
  /\ variant = "par" /\ pc = "convert"
  /\ \E k \in pending :
       /\ failures' = Append(failures, PageNumOf(k))
       /\ pending' = pending \ {k}
  /\ UNCHANGED <<variant, source, doc_id, testing, total, pc, disk, local_pdf, limit,
                 page_number, page_path, page_paths, metadata_map, parsed,
                 storage, result, created, tempFiles, dispatched, uploads,
                 removed, driverVars>>

\* The engine raises on a page (raises_on_error=True): the exception leaves the
\* for loop and parse.
ParResultRaise ==
  /\ variant = "par" /\ pc = "convert"
  /\ pending # {}
  /\ pc' = "raised"
  /\ result' = Raise("convert")
  /\ UNCHANGED <<variant, source, doc_id, testing, total, disk, local_pdf, limit,
                 page_number, page_path, page_paths, metadata_map, pending, parsed,
                 failures, storage, created, tempFiles, dispatched, uploads,
                 removed, driverVars>>

\* The iterator is exhausted: on to the upload.
ParResultsDone ==
  /\ variant = "par" /\ pc = "convert"
  /\ pending = {}
  /\ pc' = "upload"
  /\ UNCHANGED <<variant, source, doc_id, testing, total, disk, local_pdf, limit,
                 page_number, page_path, page_paths, metadata_map, pending, parsed,
                 failures, storage, result, created, tempFiles, dispatched, uploads,
                 removed, driverVars>>

\* _upload_to_gcs(parsed, doc_id) with json.dumps(data, indent=4).
ParUploadOk ==
  /\ variant = "par" /\ pc = "upload"
  /\ storage' = UploadToGcs(storage, parsed, doc_id, 4)
  /\ uploads' = uploads + 1
  /\ pc' = "cleanup"
  /\ UNCHANGED <<variant, source, doc_id, testing, total, disk, local_pdf, limit,
                 page_number, page_path, page_paths, metadata_map, pending, parsed,
                 failures, result, created, tempFiles, dispatched,
                 removed, driverVars>>

\* The upload raises: nothing is written and the exception leaves parse.
ParUploadFail ==
  /\ variant = "par" /\ pc = "upload"
  /\ pc' = "raised"
  /\ result' = Raise("upload")
  /\ UNCHANGED <<variant, source, doc_id, testing, total, disk, local_pdf, limit,
                 page_number, page_path, page_paths, metadata_map, pending, parsed,
                 failures, storage, created, tempFiles, dispatched, uploads,
                 removed, driverVars>>

\* "for p in page_paths: p.unlink()" on the history of removals: a path that no
\* longer exists raises OSError, which is passed over.
UnlinkedPages ==
  LET first == {k \in 1..Len(page_paths) :
                  /\ Exists(page_paths[k])
                  /\ \A j \in 1..(k - 1) : page_paths[j] # page_paths[k]}
      Pick[k \in 0..Len(page_paths)] ==
        IF k = 0 THEN <<>>
        ELSE IF k \in first THEN Append(Pick[k - 1], disk[page_paths[k]].n)
        ELSE Pick[k - 1]
  IN Pick[Len(page_paths)]

\* Step 7: every page path is unlinked, then the download; parsed is returned.
ParCleanup ==
  /\ variant = "par" /\ pc = "cleanup"
  /\ LET pages == {page_paths[k] : k \in 1..Len(page_paths)}
         gone == IF source.url THEN pages \cup {local_pdf} ELSE pages
     IN disk' = RemoveFiles(disk, gone)
  /\ removed' = removed \o UnlinkedPages
  /\ result' = Return(parsed)
  /\ pc' = "returned"
  /\ UNCHANGED <<variant, source, doc_id, testing, total, local_pdf, limit,
                 page_number, page_path, page_paths, metadata_map, pending, parsed,
                 failures, storage, created, tempFiles, dispatched, uploads,
                 driverVars>>

Next ==
  \/ DownloadOk
  \/ DownloadFail
  \/ UseLocal
  \/ SeqCountOk
  \/ SeqCountFail
  \/ SeqCreateTemp
  \/ SeqLoopExit
  \/ SeqExtractOk
  \/ SeqExtractFail
  \/ SeqConvertStart
  \/ SeqConvertOk
  \/ SeqConvertFail
  \/ SeqUploadOk
  \/ SeqUploadFail
  \/ SeqCleanup
  \/ ParReadOk
  \/ ParReadFail
  \/ ParExtractOk
  \/ ParExtractFail
  \/ ParConvertAll
  \/ ParResultOk
  \/ ParResultFailure
  \/ ParResultRaise
  \/ ParResultsDone
  \/ ParUploadOk
  \/ ParUploadFail
  \/ ParCleanup

Spec == Init /\ [][Next]_vars

\* ---- the batch driver (__main__ of both files) ----

\* A row of documents.xlsx, with the page count of the PDF its source names.
Rows == [url : BOOLEAN, doc_id : DocIds, pages : 0..MaxBatchPages]

\* The lists of rows.  Every local row names the one local file, and the remote
\* documents of a list have one page count; doc ids being interchangeable names,
\* the first row carries "d1".
RowLists ==
  {l \in UNION {[1..n -> Rows] : n \in 0..MaxDocs} :
     /\ \A i, j \in DOMAIN l : l[i].url = l[j].url => l[i].pages = l[j].pages
     /\ (l # <<>> => l[1].doc_id = "d1")}

\* The driver has read documents.xlsx and stands at the head of its for loop.
BatchInit ==
  /\ variant \in {"seq", "par"}
  /\ docs \in RowLists
  /\ idx = 0
  /\ log = <<>>
  /\ pc = "driver"
  /\ source = [url |-> FALSE]
  /\ doc_id = ""
  /\ testing = TRUE
  /\ total = 0
  /\ disk = [x \in {SourcePath} |-> DocFile]
  /\ local_pdf = NoPath
  /\ limit = 0
  /\ page_number = 0
  /\ page_path = NoPath
  /\ page_paths = <<>>
  /\ metadata_map = <<>>
  /\ pending = {}
  /\ parsed = <<>>
  /\ failures = <<>>
  /\ storage = <<>>
  /\ result = [error |-> "", returned |-> FALSE, value |-> <<>>]
  /\ created = <<>>
  /\ tempFiles = {}
  /\ dispatched = {}
  /\ uploads = 0
  /\ removed = <<>>

\* A line the driver prints about the row it is at: "Processing doc_id=...",
\* then "Done" or "Error: ...".
LogLine(what) == [row |-> idx + 1, doc_id |-> docs[idx + 1].doc_id, what |-> what]

\* The loop takes the next row and calls parse(source, doc_id, testing=True)
\* inside the try: a new call starts, with its own locals.
DriverCall ==
  /\ pc = "driver"
  /\ idx < Len(docs)
  /\ source' = [url |-> docs[idx + 1].url]
  /\ doc_id' = docs[idx + 1].doc_id
  /\ total' = docs[idx + 1].pages
  /\ testing' = TRUE
  /\ pc' = "resolve"
  /\ local_pdf' = NoPath
  /\ limit' = 0
  /\ page_number' = 0
  /\ page_path' = NoPath
  /\ page_paths' = <<>>
  /\ metadata_map' = <<>>
  /\ pending' = {}
  /\ parsed' = <<>>
  /\ failures' = <<>>
  /\ result' = [error |-> "", returned |-> FALSE, value |-> <<>>]
  /\ created' = <<>>
  /\ tempFiles' = {}
  /\ dispatched' = {}
  /\ uploads' = 0
  /\ removed' = <<>>
  /\ log' = Append(log, LogLine("Processing"))
  /\ UNCHANGED <<variant, disk, storage, docs, idx>>

\* DriverError as a faulty build would do it: the exception is not caught and
\* ends the loop.
DriverErrorAborting ==
  /\ pc = "raised"
  /\ idx < Len(docs)
  /\ log' = Append(log, LogLine("Error"))
  /\ pc' = "done"
  /\ UNCHANGED <<variant, source, doc_id, testing, total, disk, local_pdf, limit,
                 page_number, page_path, page_paths, metadata_map, pending, parsed,
                 failures, storage, result, created, tempFiles, dispatched, uploads,
                 removed, docs, idx>>

\* parse returned: print("Done"), and the loop goes on.
DriverDone ==
  /\ pc = "returned"
  /\ idx < Len(docs)
  /\ log' = Append(log, LogLine("Done"))
  /\ idx' = idx + 1
  /\ pc' = "driver"
  /\ UNCHANGED <<variant, source, doc_id, testing, total, disk, local_pdf, limit,
                 page_number, page_path, page_paths, metadata_map, pending, parsed,
                 failures, storage, result, created, tempFiles, dispatched, uploads,
                 removed, docs>>

\* parse raised: "except Exception" prints the error, and the loop goes on.
DriverError ==
  /\ pc = "raised"
  /\ idx < Len(docs)
  /\ log' = Append(log, LogLine("Error"))
  /\ idx' = idx + 1
  /\ pc' = "driver"
  /\ UNCHANGED <<variant, source, doc_id, testing, total, disk, local_pdf, limit,
                 page_number, page_path, page_paths, metadata_map, pending, parsed,
                 failures, storage, result, created, tempFiles, dispatched, uploads,
                 removed, docs>>

\* The rows are exhausted: print("All documents processed.").
DriverFinish ==
  /\ pc = "driver"
  /\ idx >= Len(docs)
  /\ pc' = "done"
  /\ UNCHANGED <<variant, source, doc_id, testing, total, disk, local_pdf, limit,
                 page_number, page_path, page_paths, metadata_map, pending, parsed,
                 failures, storage, result, created, tempFiles, dispatched, uploads,
                 removed, docs, idx, log>>

BatchNext ==
  \/ Next
  \/ DriverCall
  \/ DriverDone
  \/ DriverError
  \/ DriverFinish

BatchSpec == BatchInit /\ [][BatchNext]_vars

\* The interpreter runs the driver on: no step that can be taken is put off forever.
FairBatchSpec == BatchSpec /\ WF_vars(BatchNext)

\* ---- vocabulary of the claims ----

Range(s) == {s[i] : i \in 1..Len(s)}

\* parse has ended, by return or by an exception.
Ended == pc \in {"returned", "raised"}

\* The per-page temporary files of this run that still exist.
PageFilesLeft == tempFiles \cap DOMAIN disk

\* The page numbers of a list of records.
PageNumbers(recs) == {recs[i].metadata.page_number : i \in 1..Len(recs)}

StrictlyAscending(recs) ==
  \A i, j \in 1..Len(recs) :
    i < j => recs[i].metadata.page_number < recs[j].metadata.page_number

\* The number of pages parse is to process, stated without Limit.
ExpectedPages == IF testing /\ total > TestCap THEN TestCap ELSE total

\* ---- claims ----

\* C1: once parse has ended, by return or by any exception, no per-page
\* temporary file created by the run exists any more.
C1_NoPageFileLeft == Ended => PageFilesLeft = {}

\* C2: a page whose conversion fails or raises does not abort the run: parse
\* never ends with the conversion's exception, and a run that returns gives
\* exactly the records of the pages that were extracted and did not fail.
C2_PageFailureIsolated ==
  /\ ~(pc = "raised" /\ result.error = "convert")
  /\ (pc = "returned" =>
        PageNumbers(result.value) = Range(created) \ Range(failures))

\* C3: the list parse uploads and returns is strictly ascending by
\* metadata.page_number, whatever order the engine yields the results in.
C3_ResultAscending ==
  /\ StrictlyAscending(result.value)
  /\ \A k \in DOMAIN storage : StrictlyAscending(storage[k].data)

\* C4: the page artifacts created are numbered 1, 2, ... with no gap and no
\* duplicate, never beyond min(N, 5) in testing mode nor beyond N otherwise; no
\* page above the cap is extracted or converted; and once splitting is complete
\* they are exactly 1..min(N, 5), respectively 1..N.
C4_ArtifactsContiguousAndCapped ==
  /\ \A i \in 1..Len(created) : created[i] = i
  /\ Len(created) <= ExpectedPages
  /\ dispatched \subseteq 1..ExpectedPages
  /\ \A f \in DOMAIN disk : disk[f].kind = "page" => disk[f].n \in 1..ExpectedPages
  /\ (pc \in {"upload", "cleanup", "returned"} \/ (variant = "par" /\ pc = "convert")
        => Range(created) = 1..ExpectedPages)

\* C4 witness: a testing run of a PDF with more than 5 pages has returned after
\* creating exactly the artifacts 1..5.
C4_Witness ==
  /\ pc = "returned" /\ testing /\ total > TestCap
  /\ created = <<1, 2, 3, 4, 5>>

\* C5: when the upload fails, the error is reported, the temporary files are
\* cleaned up, and the list of records computed by the run is still returned.
C5_UploadFailureStillReturns ==
  result.error = "upload" =>
    /\ result.returned /\ result.value = parsed
    /\ PageFilesLeft = {}

\* C6: with a URL source, the downloaded copy no longer exists once parse has
\* ended, on every exit path after the download succeeded.
C6_DownloadRemoved ==
  (Ended /\ source.url /\ local_pdf # NoPath) => ~Exists(local_pdf)

\* The page failures a run reports: the printed ones, and the exception of a
\* conversion that raised.
ReportedFailures == Len(failures) + (IF result.error = "convert" THEN 1 ELSE 0)

\* C7: once parse has ended, every page handed to conversion has exactly one
\* outcome: records plus reported failures number as many as the pages
\* dispatched, every outcome is that of a dispatched page, and none is twice.
C7_OneOutcomePerArtifact ==
  Ended =>
    /\ Len(parsed) + ReportedFailures = Cardinality(dispatched)
    /\ PageNumbers(parsed) \cup Range(failures) \subseteq dispatched
    /\ Cardinality(PageNumbers(parsed) \cup Range(failures)) = Len(parsed) + Len(failures)

\* C8: a PDF of 0 pages never completes normally and writes nothing; once its
\* page count has been read the run ends with the empty-document error.
C8_EmptyDocumentReported ==
  total = 0 =>
    /\ pc # "returned"
    /\ uploads = 0
    /\ (Ended /\ result.error \notin {"fetch", "read"} => result.error = "empty")

\* C9: storage is written at most once per run, under the run's key, with the
\* assembled list, and only when every extracted page has its outcome; a run
\* that ends in a fetch, read, split or conversion error has written nothing.
C9_StorageWrittenOnceAfterAssembly ==
  /\ uploads <= 1
  /\ (uploads = 0 => storage = <<>>)
  /\ (uploads = 1 =>
        /\ DOMAIN storage = {GcsPath(doc_id)}
        /\ storage[GcsPath(doc_id)].data = parsed
        /\ Range(created) = 1..ExpectedPages
        /\ PageNumbers(parsed) \cup Range(failures) = Range(created))
  /\ (result.error \in {"fetch", "read", "extract", "convert"} => uploads = 0)

\* C9 witness: a run of several pages, one of them failed, has written storage.
C9_Witness ==
  /\ uploads = 1
  /\ Len(parsed) >= 2
  /\ failures # <<>>

\* C10: every record carries the doc_id given to parse and a page number that is
\* an integer of 1..limit and the number of the page its content was converted
\* from.
C10_RecordMetadata ==
  \A recs \in {parsed, result.value} \cup {storage[k].data : k \in DOMAIN storage} :
    \A i \in 1..Len(recs) :
      /\ recs[i].metadata.doc_id = doc_id
      /\ recs[i].metadata.page_number # None
      /\ recs[i].metadata.page_number \in 1..ExpectedPages
      /\ recs[i].page_content = [md |-> recs[i].metadata.page_number]

\* C10 witness: the batch variant has returned records that the engine yielded
\* out of page order.
C10_Witness ==
  /\ variant = "par" /\ pc = "returned"
  /\ Len(result.value) >= 2
  /\ result.value[1].metadata.page_number > result.value[2].metadata.page_number

\* The lines printed so far are, row by row and in list order, one "Processing"
\* line followed by that row's "Done" or "Error" line.
LogInListOrder ==
  \A i \in 1..Len(log) :
    /\ log[i].row = (i + 1) \div 2
    /\ log[i].row <= Len(docs)
    /\ log[i].doc_id = docs[log[i].row].doc_id
    /\ log[i].what \in (IF i % 2 = 1 THEN {"Processing"} ELSE {"Done", "Error"})

\* C11: in the batch driver every row is attempted exactly once, in list order,
\* whether parse returns or raises, and the loop always reaches the end of the
\* list.
C11_BatchContinues ==
  /\ [](LogInListOrder /\ (pc = "done" => Len(log) = 2 * Len(docs)))
  /\ <>(pc = "done")

\* C11 witness: the driver has finished a list of two rows whose first parse
\* raised and whose second returned.
C11_Witness ==
  /\ pc = "done" /\ Len(docs) = 2 /\ Len(log) = 4
  /\ log[2].what = "Error" /\ log[4].what = "Done"

\* C12: a write to storage puts the list under the single key
\* parsed/{doc_id}.json, replacing what was there and touching no other key, and
\* persisting the same list once more leaves storage as it is.
C12_PersistOverwrites ==
  [][uploads' = uploads + 1 =>
       LET k == GcsPath(doc_id)
       IN /\ DOMAIN storage' = DOMAIN storage \cup {k}
          /\ storage'[k].data = parsed
          /\ \A x \in DOMAIN storage \ {k} : storage'[x] = storage[x]
          /\ UploadToGcs(storage', parsed, doc_id, storage'[k].indent) = storage'
    ]_vars

\* C12 witness: two rows with the same doc_id have both been parsed and
\* uploaded, the first with a page record, and storage holds one object.
C12_Witness ==
  /\ Len(log) = 4 /\ log[2].what = "Done" /\ log[4].what = "Done"
  /\ docs[1].doc_id = docs[2].doc_id
  /\ docs[1].pages > 0
  /\ Cardinality(DOMAIN storage) = 1

\* The stage of spec 4.5 a position of parse belongs to, by its place in
\* Resolving, Splitting, Dispatching, Assembling/Persisting, Cleanup, Done|Failed.
StageOf(p) ==
  CASE p = "resolve" -> 1
    [] p \in {"count", "split", "loop", "extract"} -> 2
    [] p \in {"convert", "converting"} -> 3
    [] p = "upload" -> 4
    [] p = "cleanup" -> 5
    [] OTHER -> 6

LoopStageOf(p) == IF variant = "seq" /\ StageOf(p) \in {2, 3} THEN 2 ELSE StageOf(p)

PagesWithOutcome ==
  PageNumbers(parsed) \cup Range(failures)
    \cup (IF variant = "seq" /\ result.error = "convert" THEN {page_number} ELSE {})

OwnFiles == tempFiles \cup (IF source.url THEN {local_pdf} ELSE {})

\* C15: no step of parse removes or rewrites a file the run did not create; with
\* a local source, the source PDF stays on disk with its content.
C15_SourceUntouched ==
  [][/\ (DOMAIN disk \ DOMAIN disk') \subseteq OwnFiles
     /\ \A f \in DOMAIN disk \cap DOMAIN disk' : disk'[f] # disk[f] => f \in tempFiles
     /\ (~source.url /\ Exists(SourcePath) =>
           SourcePath \in DOMAIN disk' /\ disk'[SourcePath] = disk[SourcePath])
    ]_vars

\* C15 witness: a run on a local source has returned after removing page files,
\* and the source PDF is on disk.
C15_Witness ==
  /\ ~source.url /\ pc = "returned"
  /\ removed # <<>>
  /\ Exists(SourcePath) /\ disk[SourcePath] = DocFile

\* The per-page files on disk, whoever made them: created and still empty, or
\* holding one page.
PageFilesOnDisk == {f \in DOMAIN disk : disk[f].kind \in {"empty", "page"}}

\* C16: in the sequential variant at most one page file exists at any time, the
\* one of the current iteration; none exists between two iterations; and when
\* the file of page n+1 is created those of pages 1..n have been removed.
C16_OnePageFileAtATime ==
  variant = "seq" =>
    /\ Cardinality(PageFilesOnDisk) <= 1
    /\ PageFilesOnDisk \subseteq {page_path}
    /\ (pc \in {"loop", "upload", "cleanup", "returned"} => PageFilesOnDisk = {})
    /\ (pc \in {"extract", "convert", "converting"} =>
          removed = [i \in 1..(page_number - 1) |-> i])

\* C16 witness: the sequential variant has created the file of page 3, the only
\* page file on disk, after removing those of pages 1 and 2.
C16_Witness ==
  /\ variant = "seq" /\ pc = "extract" /\ page_number = 3
  /\ removed = <<1, 2>>
  /\ Cardinality(PageFilesOnDisk) = 1

\* A list of records without the fresh ids.
WithoutIds(recs) ==
  [i \in 1..Len(recs) |->
     [page_content |-> recs[i].page_content, metadata |-> recs[i].metadata]]

\* What the sequential variant returns for the run's document, doc_id and
\* testing flag when every page converts: the pages 1..limit in loop order.
SeqOutput ==
  [i \in 1..ExpectedPages |->
     [page_content |-> [md |-> i],
      metadata |-> [page_number |-> i, doc_id |-> doc_id]]]

\* C17: on a run in which every page converts, either variant returns, and
\* uploads under parsed/{doc_id}.json, the records the sequential variant gives
\* for that input, up to the ids.
C17_VariantsAgree ==
  (pc = "returned" /\ failures = <<>>) =>
    /\ WithoutIds(result.value) = SeqOutput
    /\ DOMAIN storage = {GcsPath(doc_id)}
    /\ WithoutIds(storage[GcsPath(doc_id)].data) = SeqOutput
====
